---- MODULE Spec2Model ----
(***************************************************************************)
(* Model of main.py, the bulk DynamoDB templated item loader.              *)
(*                                                                         *)
(* The program is one sequential process: _get_args() parses the command   *)
(* line, main(args) prints a banner, reads the template file, opens a      *)
(* batch_writer session and, for i in 1..int(args.number), renders the     *)
(* template and either puts the item into the batch or prints it.          *)
(*                                                                         *)
(* Text (the --number value, rendered template text, JSON strings) is a    *)
(* sequence of one-character strings, so that str(), int() and the JSON    *)
(* number/string syntax are computed rather than assumed.                  *)
(***************************************************************************)
EXTENDS Integers, Sequences, FiniteSets, TLC

VARIABLES
    argv,        \* the command line: which flags are given, and their text
    files,       \* the file system: file name -> template text (tokens)
    pc,          \* position of the process in the script
    args,        \* the argparse Namespace returned by _get_args
    msg_prefix,  \* main: msg_prefix
    template,    \* main: template (the Template built from the file text)
    session,     \* the batch_writer context: "none", "open" or "closed"
    n,           \* main: int(args.number), the bound of the range
    i,           \* main: the loop variable
    item,        \* main: the item rendered in this iteration
    out,         \* standard output, a sequence of lines
    puts,        \* the items handed to batch.put_item, in call order
    exc,         \* the exceptions raised, oldest first: [type, line of main.py]
    exitCode     \* the process exit status, -1 while running

vars == <<argv, files, pc, args, msg_prefix, template, session, n, i, item,
          out, puts, exc, exitCode>>

----------------------------------------------------------------------------
(* Bounds of the model.                                                    *)

MaxNumber == 3
LongNumber == 2000
MaxClock == 1
NumUUIDs == 2

(* Program constants.                                                      *)

ProgressEvery == 1000
DefaultMinutes == 0

----------------------------------------------------------------------------
(* Text helpers: str(int) and int(str) as Python computes them.            *)

\* the element of a one-element set: Only({F(x) : x \in {e}}) is F(e), with
\* e computed once
Only(S) == CHOOSE x \in S : TRUE

DigitChars == <<"0", "1", "2", "3", "4", "5", "6", "7", "8", "9">>

IsDigit(c) == \E d \in 1..10 : DigitChars[d] = c

DigitVal(c) == (CHOOSE d \in 1..10 : DigitChars[d] = c) - 1

IsSpace(c) == c \in {" ", "\t", "\n"}

RECURSIVE NatToStr(_)
NatToStr(k) ==
    IF k < 10 THEN <<DigitChars[k + 1]>>
    ELSE NatToStr(k \div 10) \o <<DigitChars[(k % 10) + 1]>>

\* str(k) for an int
IntToStr(k) == IF k < 0 THEN <<"-">> \o NatToStr(-k) ELSE NatToStr(k)

RECURSIVE DigitsToNat(_, _)
DigitsToNat(s, acc) ==
    IF s = <<>> THEN acc
    ELSE DigitsToNat(Tail(s), acc * 10 + DigitVal(Head(s)))

AllDigits(s) == s # <<>> /\ \A k \in 1..Len(s) : IsDigit(s[k])

RECURSIVE LStrip(_)
LStrip(s) == IF s # <<>> /\ IsSpace(Head(s)) THEN LStrip(Tail(s)) ELSE s

RECURSIVE RStrip(_)
RStrip(s) ==
    IF s # <<>> /\ IsSpace(s[Len(s)]) THEN RStrip(SubSeq(s, 1, Len(s) - 1)) ELSE s

\* int(s) for a str: surrounding whitespace, an optional sign, decimal digits.
\* Anything else raises ValueError (ok = FALSE).
PyInt(s) ==
    LET t == RStrip(LStrip(s))
        signed == t # <<>> /\ Head(t) \in {"+", "-"}
        digits == IF signed THEN Tail(t) ELSE t
        mag == DigitsToNat(digits, 0)
    IN  IF AllDigits(digits)
        THEN [ok |-> TRUE,
              val |-> IF signed /\ Head(t) = "-" THEN -mag ELSE mag]
        ELSE [ok |-> FALSE, val |-> 0]

\* bool(s) for a str, the conversion argparse applies for type=bool
PyBool(s) == s # ""

----------------------------------------------------------------------------
(* string.Template: $$ is an escape, $name and ${name} are placeholders    *)
(* (a name is a letter or _ followed by letters, digits and _), and any    *)
(* other $ is invalid.                                                     *)

Letters ==
    {"a", "b", "c", "d", "e", "f", "g", "h", "i", "j", "k", "l", "m",
     "n", "o", "p", "q", "r", "s", "t", "u", "v", "w", "x", "y", "z",
     "A", "B", "C", "D", "E", "F", "G", "H", "I", "J", "K", "L", "M",
     "N", "O", "P", "Q", "R", "S", "T", "U", "V", "W", "X", "Y", "Z"}

IsIdStart(c) == c = "_" \/ c \in Letters

IsIdChar(c) == IsIdStart(c) \/ IsDigit(c)

\* length of the longest identifier that is a prefix of s (0 if none)
RECURSIVE IdRun(_)
IdRun(s) == IF s # <<>> /\ IsIdChar(Head(s)) THEN 1 + IdRun(Tail(s)) ELSE 0

IdLen(s) == IF s # <<>> /\ IsIdStart(Head(s)) THEN IdRun(s) ELSE 0

Drop(s, k) == SubSeq(s, k + 1, Len(s))

SubstOk(text) == [err |-> "none", text |-> text]

SubstErr(e) == [err |-> e, text |-> <<>>]

\* what follows a "$", as the pattern of Template matches it: the escape $$,
\* a name, a name in braces, or nothing valid; len is the length matched
Placeholder(r) ==
    LET named == IdLen(r)
        b == IF r = <<>> THEN <<>> ELSE Tail(r)
        braced == IF r # <<>> /\ Head(r) = "{" /\ IdLen(b) > 0
                     /\ Len(b) > IdLen(b) /\ b[IdLen(b) + 1] = "}"
                  THEN IdLen(b) ELSE 0
    IN  IF r # <<>> /\ Head(r) = "$"
            THEN [kind |-> "escaped", name |-> <<>>, len |-> 1]
        ELSE IF named > 0
            THEN [kind |-> "named", name |-> SubSeq(r, 1, named), len |-> named]
        ELSE IF braced > 0
            THEN [kind |-> "named", name |-> SubSeq(b, 1, braced), len |-> braced + 2]
        ELSE [kind |-> "invalid", name |-> <<>>, len |-> 0]

\* the scan of substitute(): acc is the text produced so far, s what is left
RECURSIVE SubstituteInto(_, _, _)
SubstituteInto(acc, s, m) ==
    IF s = <<>> THEN SubstOk(acc)
    ELSE IF Head(s) # "$" THEN SubstituteInto(Append(acc, Head(s)), Tail(s), m)
    ELSE Only({IF ph.kind = "escaped"
                 THEN SubstituteInto(Append(acc, "$"), Drop(s, 2), m)
               ELSE IF ph.kind = "invalid" THEN SubstErr("ValueError")
               ELSE IF ph.name \notin DOMAIN m THEN SubstErr("KeyError")
               ELSE SubstituteInto(acc \o m[ph.name], Drop(s, 1 + ph.len), m) :
               ph \in {Placeholder(Tail(s))}})

\* Template(s).substitute(m): placeholders are converted left to right, the
\* first one that is invalid (ValueError) or not in m (KeyError) raises.
Substitute(s, m) == SubstituteInto(<<>>, s, m)

----------------------------------------------------------------------------
(* json.loads, for the JSON the templates of the model can produce: an     *)
(* integer, a string without escapes, or an object whose member values     *)
(* are integers or strings.  Anything else is a JSONDecodeError.           *)

NoMembers == [k \in {} |-> 0]

JNum(k) == [t |-> "num", n |-> k, s |-> <<>>]

JStr(c) == [t |-> "str", n |-> 0, s |-> c]

JFail == [ok |-> FALSE, next |-> 0, val |-> JNum(0)]

RECURSIVE SkipWs(_, _)
SkipWs(s, p) == IF p <= Len(s) /\ IsSpace(s[p]) THEN SkipWs(s, p + 1) ELSE p

\* position of the closing quote of the string whose body starts at p, or 0
RECURSIVE CloseQuote(_, _)
CloseQuote(s, p) ==
    IF p > Len(s) \/ s[p] \in {"\\", "\t", "\n"} THEN 0
    ELSE IF s[p] = "\"" THEN p
    ELSE CloseQuote(s, p + 1)

RECURSIVE DigitRun(_, _)
DigitRun(s, p) == IF p <= Len(s) /\ IsDigit(s[p]) THEN 1 + DigitRun(s, p + 1) ELSE 0

\* the scanner's number: -?(0|[1-9][0-9]*), the longest match at p
ParseNumber(s, p) ==
    LET neg == p <= Len(s) /\ s[p] = "-"
        d == IF neg THEN p + 1 ELSE p
        run == IF d <= Len(s) /\ s[d] = "0" THEN 1 ELSE DigitRun(s, d)
        mag == DigitsToNat(SubSeq(s, d, d + run - 1), 0)
    IN  IF run = 0 THEN JFail
        ELSE IF d + run <= Len(s) /\ s[d + run] \in {".", "e", "E"} THEN JFail
        ELSE [ok |-> TRUE, next |-> d + run,
              val |-> JNum(IF neg THEN -mag ELSE mag)]

ParseString(s, p) ==
    LET q == CloseQuote(s, p + 1)
    IN  IF q = 0 THEN JFail
        ELSE [ok |-> TRUE, next |-> q + 1, val |-> JStr(SubSeq(s, p + 1, q - 1))]

ParseScalar(s, p) ==
    IF p > Len(s) THEN JFail
    ELSE IF s[p] = "\"" THEN ParseString(s, p)
    ELSE ParseNumber(s, p)

MemberFail == [ok |-> FALSE, next |-> 0, key |-> <<>>, val |-> JNum(0)]

\* one member of an object, "key": value, from p; next is the position of
\* what follows it, blanks skipped
ParseMember(s, p) ==
    Only({IF ~key.ok THEN MemberFail
          ELSE Only({IF cp > Len(s) \/ s[cp] # ":" THEN MemberFail
                     ELSE Only({IF ~val.ok THEN MemberFail
                                ELSE [ok |-> TRUE, next |-> SkipWs(s, val.next),
                                      key |-> key.val.s, val |-> val.val] :
                                val \in {ParseScalar(s, SkipWs(s, cp + 1))}}) :
                     cp \in {SkipWs(s, key.next)}}) :
          key \in {IF kp <= Len(s) /\ s[kp] = "\"" THEN ParseString(s, kp) ELSE JFail :
                    kp \in {SkipWs(s, p)}}})

\* the members of an object from p (just after "{" or ","); later members
\* replace earlier ones with the same key
RECURSIVE ParseMembers(_, _, _)
ParseMembers(s, p, acc) ==
    Only({IF ~m.ok \/ m.next > Len(s)
            THEN [ok |-> FALSE, next |-> 0, o |-> acc]
          ELSE IF s[m.next] = "}"
            THEN [ok |-> TRUE, next |-> m.next + 1, o |-> (m.key :> m.val) @@ acc]
          ELSE IF s[m.next] = ","
            THEN ParseMembers(s, m.next + 1, (m.key :> m.val) @@ acc)
          ELSE [ok |-> FALSE, next |-> 0, o |-> acc] :
          m \in {ParseMember(s, p)}})

ParseObject(s, p) ==
    LET q == SkipWs(s, p + 1)
    IN  IF q <= Len(s) /\ s[q] = "}"
        THEN [ok |-> TRUE, next |-> q + 1, o |-> NoMembers]
        ELSE ParseMembers(s, p + 1, NoMembers)

JItem(t, scalar, o) == [t |-> t, n |-> scalar.n, s |-> scalar.s, o |-> o]

NoItem == JItem("none", JNum(0), NoMembers)

\* json.loads(s)
json_loads(s) ==
    LET p == SkipWs(s, 1)
        isObj == p <= Len(s) /\ s[p] = "{"
        obj == IF isObj THEN ParseObject(s, p) ELSE [ok |-> FALSE, next |-> 0, o |-> NoMembers]
        sc == IF isObj THEN JFail ELSE ParseScalar(s, p)
        ok == IF isObj THEN obj.ok ELSE sc.ok
        next == IF isObj THEN obj.next ELSE sc.next
    IN  IF ok /\ SkipWs(s, next) = Len(s) + 1
        THEN [ok |-> TRUE,
              val |-> IF isObj THEN JItem("obj", JNum(0), obj.o)
                      ELSE JItem(sc.val.t, sc.val, NoMembers)]
        ELSE [ok |-> FALSE, val |-> NoItem]

----------------------------------------------------------------------------
(* The inputs of a run: the template file and the command line.            *)

\* {"b":$BUILD}
TplBuild ==
    <<"{", "\"", "b", "\"", ":", "$", "B", "U", "I", "L", "D", "}">>

\* {"id":"$UUID","b":$BUILD,"f":"$FOO"}
TplFull ==
    <<"{", "\"", "i", "d", "\"", ":", "\"", "$", "U", "U", "I", "D", "\"",
      ",", "\"", "b", "\"", ":", "$", "B", "U", "I", "L", "D", ",", "\"",
      "f", "\"", ":", "\"", "$", "F", "O", "O", "\"", "}">>

\* {"ttl":$NOW,"b":$BUILD}
TplTtl ==
    <<"{", "\"", "t", "t", "l", "\"", ":", "$", "N", "O", "W", ",", "\"",
      "b", "\"", ":", "$", "B", "U", "I", "L", "D", "}">>

\* {"b": ${BUILD}, "tag":"n${BUILD}$$"}
TplBraced ==
    <<"{", "\"", "b", "\"", ":", " ", "$", "{", "B", "U", "I", "L", "D", "}",
      ",", " ", "\"", "t", "a", "g", "\"", ":", "\"", "n", "$", "{", "B",
      "U", "I", "L", "D", "}", "$", "$", "\"", "}">>

\* {"b":1$BUILD}
TplPrefixed ==
    <<"{", "\"", "b", "\"", ":", "1", "$", "B", "U", "I", "L", "D", "}">>

\* {"f":"x"}
TplStatic ==
    <<"{", "\"", "f", "\"", ":", "\"", "x", "\"", "}">>

\* {"b":$BUILD,"x":"$UNKNOWN"}
TplUnknown ==
    <<"{", "\"", "b", "\"", ":", "$", "B", "U", "I", "L", "D", ",", "\"",
      "x", "\"", ":", "\"", "$", "U", "N", "K", "N", "O", "W", "N", "\"",
      "}">>

\* {"b":$build}
TplLower ==
    <<"{", "\"", "b", "\"", ":", "$", "b", "u", "i", "l", "d", "}">>

\* {"f":$FOO}
TplBareFoo ==
    <<"{", "\"", "f", "\"", ":", "$", "F", "O", "O", "}">>

\* {"cost":"$ 5"}
TplLoneDollar ==
    <<"{", "\"", "c", "o", "s", "t", "\"", ":", "\"", "$", " ", "5", "\"",
      "}">>

\* {"b":0$BUILD}
TplLeadingZero ==
    <<"{", "\"", "b", "\"", ":", "0", "$", "B", "U", "I", "L", "D", "}">>

GoodTemplates == {TplBuild, TplFull, TplTtl, TplBraced, TplPrefixed, TplStatic}

BadTemplates == {TplUnknown, TplLower, TplBareFoo, TplLoneDollar, TplLeadingZero}

Templates == GoodTemplates \cup BadTemplates

\* templates that name a placeholder other than UUID, NOW, BUILD and FOO
UnsupportedTemplates == {TplUnknown, TplLower}

\* templates whose member "b" is the bare placeholder $BUILD or ${BUILD}
BuildTemplates == {TplBuild, TplFull, TplTtl, TplBraced}

\* the templates of the long runs, whose items do not vary with the uuid
\* or the time
LongTemplates == {TplBuild, TplUnknown, TplBareFoo}

Flags == {"file", "table", "number", "commit"}

Required == {"file", "table", "number"}

FileNames == {"t.json", "nope.json"}

NumberTexts ==
    {IntToStr(k) : k \in 0..MaxNumber}
        \cup {<<"-", "1">>, <<" ", "2", " ">>, <<"a", "b", "c">>, <<"2", ".", "5">>, <<>>}

LongNumberTexts == {IntToStr(LongNumber), <<"a", "b", "c">>}

CommitTexts == {"", "true", "false"}

LongCommitTexts == {"true"}

\* the value of a flag that is not given never matters: fix it
ArgvSet(numbers, commits) ==
    {a \in [given : SUBSET Flags, file : FileNames, table : {"tbl"},
            number : numbers \cup {<<>>}, commit : commits \cup {""}] :
        /\ "file" \notin a.given => a.file = "t.json"
        /\ a.number \in (IF "number" \in a.given THEN numbers ELSE {<<>>})
        /\ a.commit \in (IF "commit" \in a.given THEN commits ELSE {""})}

UuidOf(k) == <<"u", "-">> \o NatToStr(k)

UUIDs == {UuidOf(k) : k \in 1..NumUUIDs}

\* the wall clock readings, epoch seconds
Times == 0..MaxClock

Exception(type, line) == [type |-> type, line |-> line]

NoArgs == [file |-> "", table |-> "", number |-> <<>>, commit |-> FALSE]

InitWith(numbers, commits, templates) ==
    /\ argv \in ArgvSet(numbers, commits)
    /\ \E t \in templates : files = [f \in {"t.json"} |-> t]
    /\ pc = "get_args"
    /\ args = NoArgs
    /\ msg_prefix = ""
    /\ template = <<>>
    /\ session = "none"
    /\ n = 0
    /\ i = 0
    /\ item = NoItem
    /\ out = <<>>
    /\ puts = <<>>
    /\ exc = <<>>
    /\ exitCode = -1

Init == InitWith(NumberTexts, CommitTexts, Templates)

LongInit == InitWith(LongNumberTexts, LongCommitTexts, LongTemplates)

----------------------------------------------------------------------------
(* _get_args                                                               *)

\* parser.parse_args(): file, table and number are kept as text, commit is
\* converted with type=bool and defaults to False
ParseArgs(a) ==
    [file |-> a.file, table |-> a.table, number |-> a.number,
     commit |-> IF "commit" \in a.given THEN PyBool(a.commit) ELSE FALSE]

GetArgs ==
    /\ pc = "get_args"
    /\ Required \subseteq argv.given
    /\ args' = ParseArgs(argv)
    /\ pc' = "main"
    /\ UNCHANGED <<argv, files, msg_prefix, template, session, n, i, item,
                   out, puts, exc, exitCode>>

\* a required flag is missing: argparse prints the usage and exits with 2
GetArgsError ==
    /\ pc = "get_args"
    /\ ~(Required \subseteq argv.given)
    /\ exc' = Append(exc, Exception("SystemExit", 36))
    /\ exitCode' = 2
    /\ pc' = "exit"
    /\ UNCHANGED <<argv, files, args, msg_prefix, template, session, n, i,
                   item, out, puts>>

----------------------------------------------------------------------------
(* _get_future_timestamp_seconds and the rendering of one item             *)

\* datetime.now(timezone.utc) read as `now`, plus the offset, as whole seconds
_get_future_timestamp_seconds(now, minutes) == now + minutes * 60

\* as Mapping, with BUILD counted from zero
Mapping_ZeroBased(uuid, now, build) ==
    (<<"U", "U", "I", "D">> :> uuid)
        @@ (<<"N", "O", "W">> :> IntToStr(now))
        @@ (<<"B", "U", "I", "L", "D">> :> IntToStr(build - 1))
        @@ (<<"F", "O", "O">> :> <<"B", "A", "R">>)

\* the mapping of line 64-69, each value as substitute() inserts it: str(value)
Mapping(uuid, now, build) ==
    (<<"U", "U", "I", "D">> :> uuid)
        @@ (<<"N", "O", "W">> :> IntToStr(now))
        @@ (<<"B", "U", "I", "L", "D">> :> IntToStr(build))
        @@ (<<"F", "O", "O">> :> <<"B", "A", "R">>)

\* json.loads(template.substitute({...})): the item, or the exception raised
Render(tpl, uuid, now, build) ==
    Only({IF sub.err # "none" THEN [err |-> sub.err, item |-> NoItem]
          ELSE Only({IF ~js.ok THEN [err |-> "JSONDecodeError", item |-> NoItem]
                     ELSE [err |-> "none", item |-> js.val] :
                     js \in {json_loads(sub.text)}}) :
          sub \in {Substitute(tpl, Mapping(uuid, now, build))}})

\* a line of output: what it is, its prefix, and the number or item in it
Line(kind, prefix, idx, it) ==
    [kind |-> kind, prefix |-> prefix, i |-> idx, item |-> it]

----------------------------------------------------------------------------
(* main                                                                    *)

\* line 51
SetPrefix ==
    /\ pc = "main"
    /\ msg_prefix' = IF ~args.commit THEN "[DRY RUN] " ELSE ""
    /\ pc' = "banner"
    /\ UNCHANGED <<argv, files, args, template, session, n, i, item, out,
                   puts, exc, exitCode>>

\* line 52
PrintBanner ==
    /\ pc = "banner"
    /\ out' = Append(out, Line("banner", msg_prefix, 0, NoItem))
    /\ pc' = "table"
    /\ UNCHANGED <<argv, files, args, msg_prefix, template, session, n, i,
                   item, puts, exc, exitCode>>

\* line 54: dynamodb.Table(name) builds a handle, it does not reach the store
GetTable ==
    /\ pc = "table"
    /\ pc' = "open"
    /\ UNCHANGED <<argv, files, args, msg_prefix, template, session, n, i,
                   item, out, puts, exc, exitCode>>

\* lines 56-57
OpenTemplate ==
    /\ pc = "open"
    /\ args.file \in DOMAIN files
    /\ template' = files[args.file]
    /\ pc' = "enter"
    /\ UNCHANGED <<argv, files, args, msg_prefix, session, n, i, item, out,
                   puts, exc, exitCode>>

\* line 56: open() raises, outside the with block of the batch
OpenError ==
    /\ pc = "open"
    /\ args.file \notin DOMAIN files
    /\ exc' = Append(exc, Exception("FileNotFoundError", 56))
    /\ pc' = "raise"
    /\ UNCHANGED <<argv, files, args, msg_prefix, template, session, n, i,
                   item, out, puts, exitCode>>

\* line 59: __enter__ of table.batch_writer()
EnterBatch ==
    /\ pc = "enter"
    /\ session' = "open"
    /\ pc' = "range"
    /\ UNCHANGED <<argv, files, args, msg_prefix, template, n, i, item, out,
                   puts, exc, exitCode>>

\* as RangeOk, with range(1, int(args.number))
RangeOk_Exclusive ==
    /\ pc = "range"
    /\ PyInt(args.number).ok
    /\ n' = PyInt(args.number).val - 1
    /\ i' = 0
    /\ pc' = "for"
    /\ UNCHANGED <<argv, files, args, msg_prefix, template, session, item, out,
                   puts, exc, exitCode>>

\* line 60: range(1, int(args.number) + 1), evaluated once
RangeOk ==
    /\ pc = "range"
    /\ PyInt(args.number).ok
    /\ n' = PyInt(args.number).val
    /\ i' = 0
    /\ pc' = "for"
    /\ UNCHANGED <<argv, files, args, msg_prefix, template, session, item,
                   out, puts, exc, exitCode>>

\* as RangeError, with the conversion outside the with block
RangeError_Outside ==
    /\ pc = "range"
    /\ ~PyInt(args.number).ok
    /\ exc' = Append(exc, Exception("ValueError", 60))
    /\ pc' = "raise"
    /\ UNCHANGED <<argv, files, args, msg_prefix, template, session, n, i,
                   item, out, puts, exitCode>>

\* line 60: int() raises ValueError, inside the with block
RangeError ==
    /\ pc = "range"
    /\ ~PyInt(args.number).ok
    /\ exc' = Append(exc, Exception("ValueError", 60))
    /\ pc' = "exit_batch"
    /\ UNCHANGED <<argv, files, args, msg_prefix, template, session, n, i,
                   item, out, puts, exitCode>>

\* line 60: the next value of the range
ForNext ==
    /\ pc = "for"
    /\ i < n
    /\ i' = i + 1
    /\ pc' = "progress"
    /\ UNCHANGED <<argv, files, args, msg_prefix, template, session, n, item,
                   out, puts, exc, exitCode>>

\* line 60: the range is exhausted, the with block ends
ForEnd ==
    /\ pc = "for"
    /\ i >= n
    /\ pc' = "exit_batch"
    /\ UNCHANGED <<argv, files, args, msg_prefix, template, session, n, i,
                   item, out, puts, exc, exitCode>>

\* as Progress, with the iterations counted from zero
Progress_ZeroBased ==
    /\ pc = "progress"
    /\ out' = IF (i - 1) % ProgressEvery = 0
              THEN Append(out, Line("progress", msg_prefix, i, NoItem))
              ELSE out
    /\ pc' = "render"
    /\ UNCHANGED <<argv, files, args, msg_prefix, template, session, n, i,
                   item, puts, exc, exitCode>>

\* lines 61-62
Progress ==
    /\ pc = "progress"
    /\ out' = IF i % ProgressEvery = 0
              THEN Append(out, Line("progress", msg_prefix, i, NoItem))
              ELSE out
    /\ pc' = "render"
    /\ UNCHANGED <<argv, files, args, msg_prefix, template, session, n, i,
                   item, puts, exc, exitCode>>

\* lines 63-69, the item is built
RenderOk ==
    /\ pc = "render"
    /\ \E uuid \in UUIDs, now \in Times :
        LET r == Render(template, uuid, _get_future_timestamp_seconds(now, DefaultMinutes), i)
        IN  /\ r.err = "none"
            /\ item' = r.item
    /\ pc' = "handle"
    /\ UNCHANGED <<argv, files, args, msg_prefix, template, session, n, i,
                   out, puts, exc, exitCode>>

\* as RenderError, with the failed item skipped and the loop continued
RenderError_Skip ==
    /\ pc = "render"
    /\ \E uuid \in UUIDs, now \in Times :
        LET r == Render(template, uuid, _get_future_timestamp_seconds(now, DefaultMinutes), i)
        IN  /\ r.err # "none"
            /\ exc' = exc
    /\ pc' = "for"
    /\ UNCHANGED <<argv, files, args, msg_prefix, template, session, n, i,
                   item, out, puts, exitCode>>

\* lines 63-69, substitute() or json.loads() raises
RenderError ==
    /\ pc = "render"
    /\ \E uuid \in UUIDs, now \in Times :
        LET r == Render(template, uuid, _get_future_timestamp_seconds(now, DefaultMinutes), i)
        IN  /\ r.err # "none"
            /\ exc' = Append(exc, Exception(r.err, 63))
    /\ pc' = "exit_batch"
    /\ UNCHANGED <<argv, files, args, msg_prefix, template, session, n, i,
                   item, out, puts, exitCode>>

\* as PutItem, without the test of args.commit
PutItem_NoGuard ==
    /\ pc = "handle"
    /\ puts' = Append(puts, item)
    /\ pc' = "for"
    /\ UNCHANGED <<argv, files, args, msg_prefix, template, session, n, i,
                   item, out, exc, exitCode>>

\* lines 70-71, the batching interface accepts the item
PutItem ==
    /\ pc = "handle"
    /\ args.commit
    /\ puts' = Append(puts, item)
    /\ pc' = "for"
    /\ UNCHANGED <<argv, files, args, msg_prefix, template, session, n, i,
                   item, out, exc, exitCode>>

\* as PutItemError, with the error caught and the loop continued
PutItemError_Swallow ==
    /\ pc = "handle"
    /\ args.commit
    /\ puts' = Append(puts, item)
    /\ exc' = Append(exc, Exception("ClientError", 71))
    /\ pc' = "for"
    /\ UNCHANGED <<argv, files, args, msg_prefix, template, session, n, i,
                   item, out, exitCode>>

\* lines 70-71, the batching interface raises on this call
PutItemError ==
    /\ pc = "handle"
    /\ args.commit
    /\ puts' = Append(puts, item)
    /\ exc' = Append(exc, Exception("ClientError", 71))
    /\ pc' = "exit_batch"
    /\ UNCHANGED <<argv, files, args, msg_prefix, template, session, n, i,
                   item, out, exitCode>>

\* lines 72-73
PrintItem ==
    /\ pc = "handle"
    /\ ~args.commit
    /\ out' = Append(out, Line("item", msg_prefix, 0, item))
    /\ pc' = "for"
    /\ UNCHANGED <<argv, files, args, msg_prefix, template, session, n, i,
                   item, puts, exc, exitCode>>

\* as ExitBatch, with an __exit__ that suppresses the exception
ExitBatch_Suppress ==
    /\ pc = "exit_batch"
    /\ session' = "closed"
    /\ pc' = "done"
    /\ UNCHANGED <<argv, files, args, msg_prefix, template, n, i, item, out,
                   puts, exc, exitCode>>

\* line 59: __exit__ of the batch_writer, reached from the end of the loop or
\* from an exception raised inside the block; an exception keeps propagating
ExitBatch ==
    /\ pc = "exit_batch"
    /\ session' = "closed"
    /\ pc' = IF exc = <<>> THEN "done" ELSE "raise"
    /\ UNCHANGED <<argv, files, args, msg_prefix, template, n, i, item, out,
                   puts, exc, exitCode>>

\* line 59: __exit__ flushes what put_item buffered, and the flush raises
ExitBatchError ==
    /\ pc = "exit_batch"
    /\ puts # <<>>
    /\ session' = "closed"
    /\ exc' = Append(exc, Exception("ClientError", 59))
    /\ pc' = "raise"
    /\ UNCHANGED <<argv, files, args, msg_prefix, template, n, i, item, out,
                   puts, exitCode>>

\* line 75
PrintDone ==
    /\ pc = "done"
    /\ out' = Append(out, Line("done", msg_prefix, 0, NoItem))
    /\ exitCode' = 0
    /\ pc' = "exit"
    /\ UNCHANGED <<argv, files, args, msg_prefix, template, session, n, i,
                   item, puts, exc>>

\* an exception leaves main: the interpreter prints it and exits with 1
Raise ==
    /\ pc = "raise"
    /\ exitCode' = 1
    /\ pc' = "exit"
    /\ UNCHANGED <<argv, files, args, msg_prefix, template, session, n, i,
                   item, out, puts, exc>>

Step ==
    \/ GetArgs \/ GetArgsError
    \/ SetPrefix \/ PrintBanner \/ GetTable
    \/ OpenTemplate \/ OpenError
    \/ EnterBatch
    \/ RangeOk \/ RangeError
    \/ ForNext \/ ForEnd
    \/ Progress
    \/ RenderOk \/ RenderError
    \/ PutItem \/ PutItemError \/ PrintItem
    \/ ExitBatch \/ ExitBatchError
    \/ PrintDone \/ Raise

Next == Step

Spec == Init /\ [][Next]_vars

\* the script is one sequential process that runs until it exits
FairSpec == Init /\ [][Next]_vars /\ WF_vars(Step)

\* runs long enough to reach the progress lines
LongSpec == LongInit /\ [][Next]_vars

----------------------------------------------------------------------------
(* Vocabulary of the properties.                                           *)

KindLines(kind) == SelectSeq(out, LAMBDA l : l.kind = kind)

ItemLines == KindLines("item")

ProgressLines == KindLines("progress")

DonePrinted == \E k \in DOMAIN out : out[k].kind = "done"

RaisedAt(line) == \E k \in DOMAIN exc : exc[k].line = line

Succeeded == pc = "exit" /\ exitCode = 0

Failed == pc = "exit" /\ exitCode > 0

\* iterations of the loop that ran to their end
Completed == IF pc \in {"progress", "render", "handle"} THEN i - 1 ELSE i

\* the item count asked for on the command line
N == PyInt(argv.number).val

Iterations == IF N > 0 THEN N ELSE 0

KeyB == <<"b">>

\* it is what rendering the template with BUILD = k gives
IsRenderOf(it, k) ==
    /\ \E uuid \in UUIDs, now \in Times : Render(template, uuid, now, k).item = it
    /\ template \in BuildTemplates => it.o[KeyB] = JNum(k)

----------------------------------------------------------------------------
(* C1: in commit mode, while nothing has failed, every completed iteration *)
(* has handed exactly one item to put_item, the k-th call carries the item *)
(* rendered with BUILD = k, a successful run has made exactly N calls, and *)
(* put_item is only ever called while the batch session is open.           *)

C1_PutsInOrder ==
    args.commit =>
        /\ \A k \in 1..Len(puts) : IsRenderOf(puts[k], k)
        /\ exc = <<>> => Len(puts) = Completed
        /\ Succeeded => Len(puts) = Iterations

C1_PutsWhileOpen == puts' # puts => session = "open" /\ session' = "open"

\* C1: the puts are in order, one per iteration, and made while the session
\* is open, in every state and step of a run
C1_CommitSubmitsEachOnceInOrder == []C1_PutsInOrder /\ [][C1_PutsWhileOpen]_vars

C1_Witness ==
    /\ Succeeded /\ args.commit /\ session = "closed"
    /\ template = TplFull /\ Len(puts) = 3
    /\ puts[3].o[KeyB] = JNum(3)

(* C2: in a dry run (args.commit is false) put_item is never called; the   *)
(* item of every completed iteration is the last line printed instead,     *)
(* with the dry-run prefix.                                                *)

C2_DryRunNeverPuts ==
    ~args.commit =>
        /\ puts = <<>>
        /\ (pc = "for" /\ i > 0) =>
              out[Len(out)] = Line("item", "[DRY RUN] ", 0, item)

C2_Witness ==
    /\ ~args.commit /\ pc = "for" /\ i = 2
    /\ "commit" \in argv.given /\ template = TplBuild

(* C3: when --commit is absent or given as the text false, every line      *)
(* printed has the dry-run prefix and nothing is handed to put_item.       *)

C3_CommitFalseIsDryRun ==
    ("commit" \notin argv.given \/ argv.commit = "false") =>
        /\ puts = <<>>
        /\ \A k \in DOMAIN out : out[k].prefix = "[DRY RUN] "

(* C4: a dry run prints the items in order: the k-th item line is the      *)
(* template rendered with BUILD = k, each completed iteration has printed  *)
(* one item line, and a successful run has printed exactly N of them.      *)

C4_DryRunPrintsBuilds ==
    ~args.commit =>
        /\ \A k \in 1..Len(ItemLines) : IsRenderOf(ItemLines[k].item, k)
        /\ exc = <<>> => Len(ItemLines) = Completed
        /\ Succeeded => Len(ItemLines) = Iterations

C4_Witness ==
    /\ Succeeded /\ ~args.commit /\ template = TplBraced
    /\ Len(ItemLines) = 3
    /\ ItemLines[3].item.o[KeyB] = JNum(3)

(* C5: an open batch session is eventually closed, whatever happens in the *)
(* loop, and the process never exits with the session open.                *)

C5_SessionEventuallyClosed ==
    /\ [](pc = "exit" => session # "open")
    /\ (session = "open") ~> (session = "closed")

C5_Witness ==
    /\ session = "closed" /\ pc = "exit"
    /\ RaisedAt(60)

(* C6: once put_item has raised, on its k-th call, nothing more is         *)
(* rendered, printed or put: the calls stay at k, and the process ends     *)
(* with a failure.                                                         *)

C6_AfterPutError ==
    RaisedAt(71) =>
        /\ Len(puts) = i
        /\ pc \in {"exit_batch", "raise", "exit"}
        /\ pc = "exit" => exitCode = 1 /\ ~DonePrinted

C6_Frozen == RaisedAt(71) => puts' = puts /\ item' = item /\ i' = i /\ out' = out

\* C6: after an error of put_item the run is frozen and ends as a failure,
\* in every state and step of a run
C6_PutErrorStopsRun == []C6_AfterPutError /\ [][C6_Frozen]_vars

C6_Witness ==
    /\ RaisedAt(71) /\ Failed
    /\ N = 3 /\ Len(puts) = 2

(* C7: with a template that names an unsupported placeholder, in either    *)
(* mode, nothing is ever put or printed as an item, the loop never gets    *)
(* past its first iteration, and for N >= 1 the run ends with the          *)
(* KeyError of that first rendering.                                       *)

C7_UnsupportedPlaceholderFails ==
    template \in UnsupportedTemplates =>
        /\ puts = <<>>
        /\ ItemLines = <<>>
        /\ i <= 1
        /\ (pc = "exit" /\ N >= 1) =>
              exitCode = 1 /\ exc = <<Exception("KeyError", 63)>>

C7_Witness ==
    /\ template = TplUnknown /\ Failed /\ args.commit
    /\ N = 3 /\ i = 1 /\ RaisedAt(63)

\* the command line lacks a required flag, or its --number is no integer
InvalidArgs == ~(Required \subseteq argv.given) \/ ~PyInt(argv.number).ok

(* C8: with a required flag missing or a --number that int() rejects, the  *)
(* process ends in _get_args: nothing is printed, the template file is     *)
(* not opened and the batch session is not opened.                         *)

C8_InvalidArgsBeforeIO ==
    InvalidArgs =>
        /\ pc \in {"get_args", "exit"}
        /\ out = <<>>
        /\ template = <<>>
        /\ session = "none"

(* C9: the Done line is printed only after the session is closed, with no  *)
(* exception raised and all N iterations completed, each having put or     *)
(* printed its item.                                                       *)

C9_DoneOnlyAfterCloseAndSuccess ==
    DonePrinted =>
        /\ session = "closed"
        /\ exc = <<>>
        /\ i = Iterations
        /\ Len(IF args.commit THEN puts ELSE ItemLines) = Iterations

C9_Witness ==
    /\ DonePrinted /\ args.commit /\ Len(puts) = 3

(* C10: in both modes the progress lines printed are exactly those of the  *)
(* multiples of 1000 reached so far, in order, and the line of iteration i *)
(* is the last thing printed when item i is rendered and handled.          *)

C10_ProgressEveryThousand ==
    /\ Len(ProgressLines) = (IF pc = "progress" THEN i - 1 ELSE i) \div 1000
    /\ \A k \in 1..Len(ProgressLines) :
          ProgressLines[k] = Line("progress", msg_prefix, k * 1000, NoItem)
    /\ (pc \in {"render", "handle"} /\ i % 1000 = 0) =>
          /\ out[Len(out)] = Line("progress", msg_prefix, i, NoItem)
          /\ Len(puts) < i

C10_Witness ==
    /\ pc = "handle" /\ i = 1000 /\ args.commit
    /\ out[Len(out)] = Line("progress", "", 1000, NoItem)
    /\ Len(puts) = 999

====
